---- MODULE Spec2Model ----
(***************************************************************************)
(* Windowed data-quality scoring of bench_tool (dq_measurement.py):        *)
(* the three per-window scorers, measure_dqs (chunked reading of the input *)
(* file and aggregation of the window scores) and compare_results.         *)
(*                                                                         *)
(* Numbers.  Python floats are modelled as exact rationals n/d with a NaN  *)
(* flag.  Comparisons follow IEEE-754 for NaN (every ordered comparison    *)
(* with NaN is false).  The inputs are drawn so that no comparison of the  *)
(* code is an exact tie that binary rounding could decide the other way.   *)
(***************************************************************************)
EXTENDS Integers, Sequences, FiniteSets, TLC

VARIABLES
    \* ---- measure_dqs ----
    columns,              \* column names of the header line of the input file
    rows,                 \* data lines of the input file (CSV text fields)
    window_size,          \* argument window_size
    volatility,           \* argument volatility
    pc,                   \* "reading" | "done" | "raised"
    read_pos,             \* number of data lines real_reader has consumed
    chunks_read,          \* number of chunks real_reader has yielded
    real_chunk,           \* the chunk bound by the for loop (after in-place edits)
    first_Value_id,
    last_Value_id,
    value_start,
    value_end,
    accuracies,
    mad_values,
    vt_values,
    median_values,
    threshold_values,
    completeness_values,
    timeliness_values,
    total_rows,
    reader_open,          \* real_reader holds the file open
    raised,               \* the exception that left measure_dqs, or NoException
    returned_df,          \* what measure_dqs returned: Some(result_df) or NoValue
    \* ---- one call of a scorer ----
    scorer,               \* which scorer is called
    data_window,          \* its argument data_window (its caller's object)
    sc_volatility,        \* its argument volatility
    sc_pc,                \* "call" | "returned" | "raised"
    sc_result,            \* the tuple it returned
    sc_raised,            \* the exception it raised, or NoException
    \* ---- compare_results ----
    result_df,            \* argument result_df (the caller's DataFrame)
    comparison_file,      \* lines of the file at comparison_file
    cmp_pc,               \* "call" | "returned" | "raised"
    diff_df,              \* the local diff_df after the filter
    printed,              \* what was printed: "accurate" | "differences" | "nothing"
    cmp_returned,         \* the value returned to the caller
    cmp_raised,           \* the exception raised, or NoException
    \* ---- ConfigReader and the prepare command ----
    config_file,          \* argument config_file: NoPath, MissingPath or a file
    config,               \* the attributes of the ConfigReader object
    prep_pc,              \* "call" | "configured" | "done" | "raised"
    stages_run,           \* the preprocessing functions prepare has called
    prep_raised,          \* the exception that left prepare, or NoException
    \* ---- add_time_of_availability ----
    at_input,             \* data lines of input_file (the timestamp fields)
    at_chunk_size,        \* argument chunk_size
    validity_period,      \* argument validity_period
    outdated_percentage,  \* argument outdated_percentage, <<num, den>>
    output_before,        \* lines of output_file before the call
    output_file,          \* lines of output_file
    at_pos,               \* number of data lines the reader has consumed
    at_chunks,            \* number of chunks the reader has yielded
    first_chunk,
    count,
    at_pc,                \* "reading" | "done" | "raised"
    at_raised,
    \* ---- split_sensors_by_file ----
    sp_input,             \* data lines of input_file
    sp_chunk_size,        \* argument chunk_size
    sp_pos,               \* number of data lines the reader has consumed
    sp_chunks,            \* number of chunks the reader has yielded
    sensor_files,         \* the dict sensor_files (its keys)
    files_before,         \* the sensor files of output_dir before the call
    files,                \* the sensor files of output_dir: lines, or Absent
    sp_pc,                \* "reading" | "done" | "raised"
    \* ---- check_consistency ----
    sensor_file,          \* data lines of sensor_file
    chunk_size,           \* the module-level chunk_size
    cc_pos,               \* number of data lines the reader has consumed
    cc_chunks,            \* number of chunks the reader has yielded
    last_value_id,
    last_timestamp,
    inconsistent_rows,
    total_rows_checked,
    cc_pc,                \* "reading" | "done"
    cc_printed            \* "nothing" | "consistent" | "inconsistent"

pipeVars == <<columns, rows, window_size, volatility, pc, read_pos, chunks_read,
              real_chunk, first_Value_id, last_Value_id, value_start, value_end,
              accuracies, mad_values, vt_values, median_values, threshold_values,
              completeness_values, timeliness_values, total_rows, reader_open,
              raised, returned_df>>

scorerVars == <<scorer, data_window, sc_volatility, sc_pc, sc_result, sc_raised>>

cmpVars == <<result_df, comparison_file, cmp_pc, diff_df, printed, cmp_returned,
             cmp_raised>>

prepVars == <<config_file, config, prep_pc, stages_run, prep_raised>>

availVars == <<at_input, at_chunk_size, validity_period, outdated_percentage,
               output_before, output_file, at_pos, at_chunks, first_chunk, count,
               at_pc, at_raised>>

splitVars == <<sp_input, sp_chunk_size, sp_pos, sp_chunks, sensor_files,
               files_before, files, sp_pc>>

consVars == <<sensor_file, chunk_size, cc_pos, cc_chunks, last_value_id,
              last_timestamp, inconsistent_rows, total_rows_checked, cc_pc,
              cc_printed>>

toolVars == <<prepVars, availVars, splitVars, consVars>>

vars == <<pipeVars, scorerVars, cmpVars, toolVars>>

----------------------------------------------------------------------------
(* Bounds of the model                                                     *)

MaxRows == 4          \* data lines in the input file: 0 .. MaxRows
MaxWindow == 3        \* window_size: 1 .. MaxWindow
MaxLen == 4           \* length of a window handed to a scorer directly
MaxCompared == 2      \* rows of result_df, and data lines of the comparison file

----------------------------------------------------------------------------
(* Floats                                                                  *)

NaN == [nan |-> TRUE, n |-> 0, d |-> 1]

Q(n, d) == [nan |-> FALSE, n |-> n, d |-> d]

Int2Q(i) == Q(i, 1)

RECURSIVE Gcd(_, _)
Gcd(a, b) == IF b = 0 THEN a ELSE Gcd(b, a % b)

Abs(i) == IF i < 0 THEN -i ELSE i

\* lowest terms, positive denominator: one representation per value
Norm(x) ==
    IF x.nan THEN NaN
    ELSE LET g == Gcd(Abs(x.n), Abs(x.d))
             s == IF x.d < 0 THEN -1 ELSE 1
         IN  Q(s * (x.n \div g), s * (x.d \div g))

AddQ(a, b) == IF a.nan \/ b.nan THEN NaN ELSE Norm(Q(a.n * b.d + b.n * a.d, a.d * b.d))

SubQ(a, b) == IF a.nan \/ b.nan THEN NaN ELSE Norm(Q(a.n * b.d - b.n * a.d, a.d * b.d))

MulQ(a, b) == IF a.nan \/ b.nan THEN NaN ELSE Norm(Q(a.n * b.n, a.d * b.d))

\* a / b for b # 0
DivQ(a, b) == IF a.nan \/ b.nan THEN NaN ELSE Norm(Q(a.n * b.d, a.d * b.n))

AbsQ(a) == IF a.nan THEN NaN ELSE Q(Abs(a.n), a.d)

\* a < b, a > b, a = b on floats: false as soon as one side is NaN
LtQ(a, b) == ~a.nan /\ ~b.nan /\ a.n * b.d < b.n * a.d

GtQ(a, b) == LtQ(b, a)

EqQ(a, b) == ~a.nan /\ ~b.nan /\ a.n * b.d = b.n * a.d

LeQ(a, b) == LtQ(a, b) \/ EqQ(a, b)

\* np.maximum(a, b) (NaN propagates)
MaxQ(a, b) == IF a.nan \/ b.nan THEN NaN ELSE IF LtQ(a, b) THEN b ELSE a

RECURSIVE SumQ(_)
SumQ(s) == IF s = <<>> THEN Int2Q(0) ELSE AddQ(Head(s), SumQ(Tail(s)))

RECURSIVE InsertQ(_, _)
InsertQ(x, s) ==
    IF s = <<>> THEN <<x>>
    ELSE IF LtQ(Head(s), x) THEN <<Head(s)>> \o InsertQ(x, Tail(s))
    ELSE <<x>> \o s

RECURSIVE SortQ(_)
SortQ(s) == IF s = <<>> THEN <<>> ELSE InsertQ(Head(s), SortQ(Tail(s)))

\* np.median of an array without NaN: the middle of the sorted array, the mean
\* of the two middle elements for an even length, nan for the empty array
MedianQ(s) ==
    IF s = <<>> THEN NaN
    ELSE LET t == SortQ(s)
             n == Len(s)
         IN  IF n % 2 = 1 THEN t[(n + 1) \div 2]
             ELSE DivQ(AddQ(t[n \div 2], t[n \div 2 + 1]), Int2Q(2))

\* number of indices of s whose element satisfies P
Count(s, P(_)) == Cardinality({i \in DOMAIN s : P(s[i])})

MapSeq(s, F(_)) == [i \in DOMAIN s |-> F(s[i])]

----------------------------------------------------------------------------
(* Cells                                                                   *)
(* A field of a CSV file is text: kind "empty" (nothing between the        *)
(* commas), "na" (one of pandas' default NA markers such as NA or null),   *)
(* "text" (any other non-numeric text) or "digits" (the decimal text of v).*)
(* A cell of a DataFrame read with dtype=str is "nan" (missing), "badstr"  *)
(* (a str that is not a number), "numstr" (a str that is the number v),    *)
(* "emptystr" (the str "") or, after pd.to_numeric, "num" (the number v).  *)

FileCell(kind, v) == [kind |-> kind, v |-> v]

Cell(kind, v) == [kind |-> kind, v |-> v]

NanCell == Cell("nan", 0)

\* pd.read_csv(..., dtype=str) on one field
ReadCsvCell(f) ==
    CASE f.kind = "empty"  -> NanCell
      [] f.kind = "na"     -> NanCell
      [] f.kind = "text"   -> Cell("badstr", 0)
      [] f.kind = "digits" -> Cell("numstr", f.v)

\* mutant: text that is not a number is coerced to 0
ToNumericCell_text_as_zero(c) ==
    IF c.kind \in {"numstr", "num"} THEN Cell("num", c.v)
    ELSE IF c.kind = "badstr" THEN Cell("num", 0) ELSE NanCell

\* pd.to_numeric(..., errors="coerce") on one cell
ToNumericCell(c) ==
    IF c.kind \in {"numstr", "num"} THEN Cell("num", c.v) ELSE NanCell

\* DataFrame.fillna("") on one cell
FillNaCell(c) == IF c.kind = "nan" THEN Cell("emptystr", 0) ELSE c

IsNanCell(c) == c.kind = "nan"

\* the float of a numeric cell
CellQ(c) == IF c.kind = "num" THEN Int2Q(c.v) ELSE NaN

----------------------------------------------------------------------------
(* Rows and windows                                                        *)

Columns == {"value_id", "sensor_id", "value", "timestamp", "available_time"}

\* one row of a DataFrame: a cell per column
Row(id, val, ts, at) ==
    [value_id |-> id, sensor_id |-> Cell("numstr", 7), value |-> val,
     timestamp |-> ts, available_time |-> at]

Column(window, col) == [i \in DOMAIN window |-> window[i][col]]

\* window[col] = F(window[col]), the column assignment of a DataFrame
SetColumn(window, col, F(_)) ==
    [i \in DOMAIN window |-> [window[i] EXCEPT ![col] = F(window[i][col])]]

NoException == [type |-> "none", arg |-> ""]

KeyError(col) == [type |-> "KeyError", arg |-> col]

\* pandas.errors.IntCastingNaNError, a ValueError: "Cannot convert non-finite
\* values (NA or inf) to integer"
IntCastingNaNError == [type |-> "ValueError", arg |-> "IntCastingNaNError"]

\* unpacking a tuple of the wrong length: "not enough values to unpack"
UnpackError == [type |-> "ValueError", arg |-> "unpack"]

NoValue == <<>>

----------------------------------------------------------------------------
(* The parts of the state a specification does not use                     *)

MeasureIdle ==
    /\ columns = {}
    /\ rows = <<>>
    /\ window_size = 0
    /\ volatility = 0
    /\ pc = "idle"
    /\ read_pos = 0
    /\ chunks_read = 0
    /\ real_chunk = <<>>
    /\ first_Value_id = Cell("emptystr", 0)
    /\ last_Value_id = Cell("emptystr", 0)
    /\ value_start = <<>>
    /\ value_end = <<>>
    /\ accuracies = <<>>
    /\ mad_values = <<>>
    /\ vt_values = <<>>
    /\ median_values = <<>>
    /\ threshold_values = <<>>
    /\ completeness_values = <<>>
    /\ timeliness_values = <<>>
    /\ total_rows = 0
    /\ reader_open = FALSE
    /\ raised = NoException
    /\ returned_df = NoValue

ScorerIdle ==
    /\ scorer = "none"
    /\ data_window = <<>>
    /\ sc_volatility = 0
    /\ sc_pc = "idle"
    /\ sc_result = NoValue
    /\ sc_raised = NoException

CompareIdle ==
    /\ result_df = <<>>
    /\ comparison_file = <<>>
    /\ cmp_pc = "idle"
    /\ diff_df = <<>>
    /\ printed = "nothing"
    /\ cmp_returned = NoValue
    /\ cmp_raised = NoException

\* Python's None
None == <<"None">>

\* Python's None where the other values are scalars of a column
NoneScalar == [kind |-> "None", v |-> 0]

\* a file that does not exist
Absent == [exists |-> FALSE, lines |-> <<>>]

\* a ConfigReader that has not been constructed
NoAttributes == [a \in {} |-> 0]

PrepareIdle ==
    /\ config_file = [path |-> "none", loads |-> "", data |-> <<>>]
    /\ config = NoAttributes
    /\ prep_pc = "idle"
    /\ stages_run = <<>>
    /\ prep_raised = NoException

AvailabilityIdle ==
    /\ at_input = <<>>
    /\ at_chunk_size = 0
    /\ validity_period = 0
    /\ outdated_percentage = <<0, 1>>
    /\ output_before = Absent
    /\ output_file = Absent
    /\ at_pos = 0
    /\ at_chunks = 0
    /\ first_chunk = TRUE
    /\ count = 0
    /\ at_pc = "idle"
    /\ at_raised = NoException

SplitIdle ==
    /\ sp_input = <<>>
    /\ sp_chunk_size = 0
    /\ sp_pos = 0
    /\ sp_chunks = 0
    /\ sensor_files = {}
    /\ files_before = <<>>
    /\ files = <<>>
    /\ sp_pc = "idle"

ConsistencyIdle ==
    /\ sensor_file = <<>>
    /\ chunk_size = 0
    /\ cc_pos = 0
    /\ cc_chunks = 0
    /\ last_value_id = NoneScalar
    /\ last_timestamp = NoneScalar
    /\ inconsistent_rows = 0
    /\ total_rows_checked = 0
    /\ cc_pc = "idle"
    /\ cc_printed = "nothing"

ToolIdle == PrepareIdle /\ AvailabilityIdle /\ SplitIdle /\ ConsistencyIdle

----------------------------------------------------------------------------
(* _calculate_window_accuracy                                              *)

\* 0.6745, as the fraction MadScaleNum / MadScaleDen
MadScaleNum == 6745

MadScaleDen == 10000

MadFactor == 3

\* mutant: V_T starts at 0, the NaN are not counted as incorrect
NanCount_not_counted(values) == 0

\* np.sum(np.isnan(data_window))
NanCount(values) == Count(values, IsNanCell)

\* data_window[~np.isnan(data_window)], as floats
RemoveNan(values) == MapSeq(SelectSeq(values, LAMBDA c : ~IsNanCell(c)), CellQ)

\* np.abs(data_window - median)
AbsDeviations(clean, median) == MapSeq(clean, LAMBDA x : AbsQ(SubQ(x, median)))

\* threshold = 3 * mad * alpha with alpha = 1 / 0.6745
Threshold(mad) ==
    MulQ(MulQ(Int2Q(MadFactor), mad), DivQ(Int2Q(1), Q(MadScaleNum, MadScaleDen)))

\* mutant: a deviation equal to the threshold counts as well
OutlierCount_at_threshold(clean, median, threshold) ==
    Count(AbsDeviations(clean, median), LAMBDA a : LeQ(threshold, a))

\* np.sum(np.abs(data_window - median) > threshold)
OutlierCount(clean, median, threshold) ==
    Count(AbsDeviations(clean, median), LAMBDA a : GtQ(a, threshold))

\* mutant: N_A is the number of values left after the NaN are removed
AccuracyDivisor_after_nan_removal(values) == Len(SelectSeq(values, LAMBDA c : ~IsNanCell(c)))

\* N_A = WINDOW_SIZE, the length of the window before the NaN are removed
AccuracyDivisor(values) == Len(values)

\* accuracy = 1 - (V_T / N_A) if N_A > 0 else 1
AccuracyOf(V_T, N_A) ==
    IF N_A > 0 THEN SubQ(Int2Q(1), DivQ(Int2Q(V_T), Int2Q(N_A))) ELSE Int2Q(1)

\* mutant: a window with nothing left after NaN removal is treated as empty
calculate_window_accuracy_empty_after_nan(values) ==
    IF Len(RemoveNan(values)) = 0
    THEN <<Int2Q(1), Int2Q(0), Int2Q(NanCount(values)), Int2Q(0), Int2Q(0)>>
    ELSE LET clean     == RemoveNan(values)
             median    == MedianQ(clean)
             mad       == MedianQ(AbsDeviations(clean, median))
             threshold == Threshold(mad)
             V_T       == NanCount(values) + OutlierCount(clean, median, threshold)
         IN  <<AccuracyOf(V_T, Len(values)), mad, Int2Q(V_T), median, threshold>>

\* the returned tuple: <<accuracy, mad, V_T, median>> for the empty window,
\* <<accuracy, mad, V_T, median, threshold>> otherwise
calculate_window_accuracy(values) ==
    IF Len(values) = 0
    THEN <<Int2Q(1), Int2Q(0), Int2Q(0), Int2Q(0)>>
    ELSE LET clean     == RemoveNan(values)
             median    == MedianQ(clean)
             mad       == MedianQ(AbsDeviations(clean, median))
             threshold == Threshold(mad)
             V_T       == NanCount(values) + OutlierCount(clean, median, threshold)
             N_A       == AccuracyDivisor(values)
         IN  <<AccuracyOf(V_T, N_A), mad, Int2Q(V_T), median, threshold>>

----------------------------------------------------------------------------
(* _calculate_window_completeness                                          *)

\* mutant: every value that is not a number counts as missing
MissingCount_not_a_number(window) ==
    Count(Column(window, "value"), LAMBDA c : c.kind \in {"emptystr", "badstr", "nan"})

\* data_window["value"].eq("").sum()
MissingCount(window) == Count(Column(window, "value"), LAMBDA c : c.kind = "emptystr")

\* the returned tuple <<completeness, missing_values>>
calculate_window_completeness(window) ==
    LET total_values   == Len(window)
        missing_values == MissingCount(window)
    IN  <<IF total_values > 0
          THEN SubQ(Int2Q(1), DivQ(Int2Q(missing_values), Int2Q(total_values)))
          ELSE Int2Q(1),
          Int2Q(missing_values)>>

----------------------------------------------------------------------------
(* _calculate_window_timeliness                                            *)
(* The outcome of a call: the exception raised (or NoException), the       *)
(* returned value, and the caller's window as the call leaves it (lines    *)
(* 100-101 assign the coerced columns into the caller's DataFrame).        *)

Outcome(exc, value, window) == [exc |-> exc, value |-> value, window |-> window]

\* Series.astype(int) raises on a NaN
AstypeIntRaises(column) == \E i \in DOMAIN column : IsNanCell(column[i])

\* mutant: no clamp at 0
RowTimeliness_unclamped(r, vol) ==
    SubQ(Int2Q(1), DivQ(Int2Q(r.available_time.v - r.timestamp.v), Int2Q(vol)))

\* max(1 - currency / volatility, 0) of one row
RowTimeliness(r, vol) ==
    MaxQ(SubQ(Int2Q(1), DivQ(Int2Q(r.available_time.v - r.timestamp.v), Int2Q(vol))),
         Int2Q(0))

\* Series.mean() of the per-row timeliness
MeanTimeliness(window, vol) ==
    DivQ(SumQ(MapSeq(window, LAMBDA r : RowTimeliness(r, vol))), Int2Q(Len(window)))

calculate_window_timeliness(cols, window, vol) ==
    IF "available_time" \notin cols
    THEN Outcome(KeyError("available_time"), NaN, window)
    ELSE LET w1 == SetColumn(window, "available_time", ToNumericCell) IN
    IF "timestamp" \notin cols
    THEN Outcome(KeyError("timestamp"), NaN, w1)
    ELSE LET w2 == SetColumn(w1, "timestamp", ToNumericCell) IN
    IF Len(w2) = 0
    THEN Outcome(NoException, Int2Q(1), w2)
    ELSE IF AstypeIntRaises(Column(w2, "available_time"))
            \/ AstypeIntRaises(Column(w2, "timestamp"))
    THEN Outcome(IntCastingNaNError, NaN, w2)
    ELSE Outcome(NoException, MeanTimeliness(w2, vol), w2)

----------------------------------------------------------------------------
(* measure_dqs                                                             *)

SeqUpTo(S, n) == UNION {[1 .. k -> S] : k \in 0 .. n}

Min(a, b) == IF a < b THEN a ELSE b

\* one data line of the input file: a text field per column
FileRow(val, ts, at) ==
    [value_id |-> FileCell("digits", 0), sensor_id |-> FileCell("digits", 7),
     value |-> val, timestamp |-> ts, available_time |-> at]

\* the data lines the model draws the input file from (value, timestamp,
\* available_time as CSV text); value_id is set from the line number
RowChoices ==
    { FileRow(FileCell("digits", 1), FileCell("digits", 5), FileCell("digits", 5)),
      FileRow(FileCell("empty", 0),  FileCell("digits", 5), FileCell("digits", 6)),
      FileRow(FileCell("text", 0),   FileCell("digits", 5), FileCell("digits", 9)),
      FileRow(FileCell("digits", 9), FileCell("digits", 5), FileCell("digits", 4)),
      FileRow(FileCell("digits", 1), FileCell("text", 0),   FileCell("digits", 5)),
      FileRow(FileCell("na", 0),     FileCell("digits", 5), FileCell("digits", 5)) }

Files ==
    { [i \in DOMAIN t |-> [t[i] EXCEPT !.value_id = FileCell("digits", 100 + i)]] :
        t \in SeqUpTo(RowChoices, MaxRows) }

\* the files of plain lines only (value 1, timestamp 5, available_time 5)
PlainFiles ==
    { [i \in 1 .. n |->
          [FileRow(FileCell("digits", 1), FileCell("digits", 5), FileCell("digits", 5))
              EXCEPT !.value_id = FileCell("digits", 100 + i)]] :
        n \in 0 .. MaxRows }

ColumnSets == {Columns} \cup {Columns \ {c} : c \in Columns}

\* the input files for a header: every file when all columns are there, the
\* plain files when a column is missing (which column is missing decides
\* such a run, and sensor_id is read by no step)
FilesFor(cols) == IF cols = Columns THEN Files ELSE PlainFiles

Volatilities == {2}

\* mutant: the reader stops one chunk early when the lines run out exactly
HasNextChunk_stops_early ==
    IF Len(rows) = 0 THEN chunks_read = 0 ELSE read_pos + window_size < Len(rows)

\* the chunks real_reader yields: one empty chunk for a file without data
\* lines, otherwise ceil(n / window_size) chunks
HasNextChunk ==
    IF Len(rows) = 0 THEN chunks_read = 0 ELSE read_pos < Len(rows)

\* the next chunk: the next window_size lines (fewer at the end of the file),
\* every field read as str
NextChunkRows ==
    LET last == Min(read_pos + window_size, Len(rows))
    IN  [i \in 1 .. (last - read_pos) |->
            [c \in Columns |-> ReadCsvCell(rows[read_pos + i][c])]]

\* len(real_chunk) == window_size: only full windows are processed
IsFullWindow(chunk) == Len(chunk) = window_size

\* real_chunk['value_id'].iloc[0]
FirstValueId(chunk) == chunk[1].value_id

\* mutant: the last id is taken from the first row
LastValueId_from_first_row(chunk) == chunk[1].value_id

\* real_chunk['value_id'].iloc[window_size - 1]
LastValueId(chunk) == chunk[window_size].value_id

\* pd.DataFrame({...}) of the result lists
ResultDf ==
    [i \in DOMAIN value_start |->
        [Value_Start |-> value_start[i], Value_End |-> value_end[i],
         Accuracy |-> accuracies[i], Completeness |-> completeness_values[i],
         Timeliness |-> timeliness_values[i]]]

InitMeasure ==
    /\ columns \in ColumnSets
    /\ rows \in FilesFor(columns)
    /\ window_size \in 1 .. MaxWindow
    /\ volatility \in Volatilities
    /\ pc = "reading"
    /\ read_pos = 0
    /\ chunks_read = 0
    /\ real_chunk = <<>>
    /\ first_Value_id = Cell("emptystr", 0)
    /\ last_Value_id = Cell("emptystr", 0)
    /\ value_start = <<>>
    /\ value_end = <<>>
    /\ accuracies = <<>>
    /\ mad_values = <<>>
    /\ vt_values = <<>>
    /\ median_values = <<>>
    /\ threshold_values = <<>>
    /\ completeness_values = <<>>
    /\ timeliness_values = <<>>
    /\ total_rows = 0
    /\ reader_open = TRUE
    /\ raised = NoException
    /\ returned_df = NoValue

\* mutant: the reader is opened without a with block, an exception leaves it
\* open
Raise_reader_left_open(exc) ==
    /\ pc' = "raised"
    /\ raised' = exc
    /\ UNCHANGED <<reader_open, returned_df>>

\* an exception leaves the for loop and the with block, which closes the reader
Raise(exc) ==
    /\ pc' = "raised"
    /\ raised' = exc
    /\ reader_open' = FALSE
    /\ UNCHANGED returned_df

\* _process_accuracy(real_values): unpack the scorer's tuple, append to the lists
ProcessAccuracy(real_values, first, last) ==
    LET t == calculate_window_accuracy(real_values)
    IN  /\ value_start' = Append(value_start, first)
        /\ value_end' = Append(value_end, last)
        /\ accuracies' = Append(accuracies, t[1])
        /\ mad_values' = Append(mad_values, t[2])
        /\ vt_values' = Append(vt_values, t[3])
        /\ median_values' = Append(median_values, t[4])
        /\ threshold_values' = Append(threshold_values, t[5])

\* _process_completeness(real_chunk): fillna("") on a copy, then the scorer
ProcessCompleteness(chunk) ==
    LET filled == [i \in DOMAIN chunk |-> [c \in Columns |-> FillNaCell(chunk[i][c])]]
    IN  completeness_values' =
            Append(completeness_values, calculate_window_completeness(filled)[1])

accLists == <<value_start, value_end, accuracies, mad_values, vt_values,
              median_values, threshold_values>>

\* one iteration of the for loop over real_reader
NextChunk ==
    /\ pc = "reading"
    /\ HasNextChunk
    /\ LET chunk == NextChunkRows IN
       /\ read_pos' = read_pos + Len(chunk)
       /\ chunks_read' = chunks_read + 1
       /\ UNCHANGED <<columns, rows, window_size, volatility, scorerVars, cmpVars, toolVars>>
       /\ IF "value" \notin columns
          THEN /\ Raise(KeyError("value"))
               /\ real_chunk' = chunk
               /\ UNCHANGED <<first_Value_id, last_Value_id, accLists,
                              completeness_values, timeliness_values, total_rows>>
          ELSE IF ~IsFullWindow(chunk)
          THEN /\ real_chunk' = chunk
               /\ UNCHANGED <<first_Value_id, last_Value_id, accLists,
                              completeness_values, timeliness_values, total_rows,
                              pc, raised, reader_open, returned_df>>
          ELSE IF "value_id" \notin columns
          THEN /\ Raise(KeyError("value_id"))
               /\ real_chunk' = chunk
               /\ UNCHANGED <<first_Value_id, last_Value_id, accLists,
                              completeness_values, timeliness_values, total_rows>>
          ELSE LET real_values == MapSeq(Column(chunk, "value"), ToNumericCell)
                   out == calculate_window_timeliness(columns, chunk, volatility)
               IN  /\ first_Value_id' = FirstValueId(chunk)
                   /\ last_Value_id' = LastValueId(chunk)
                   /\ ProcessAccuracy(real_values, FirstValueId(chunk),
                                      LastValueId(chunk))
                   /\ ProcessCompleteness(chunk)
                   /\ real_chunk' = out.window
                   /\ IF out.exc # NoException
                      THEN /\ Raise(out.exc)
                           /\ UNCHANGED <<timeliness_values, total_rows>>
                      ELSE /\ timeliness_values' = Append(timeliness_values, out.value)
                           /\ total_rows' = total_rows + Len(chunk)
                           /\ UNCHANGED <<pc, raised, reader_open, returned_df>>

\* real_reader is exhausted: the with block closes it, result_df is returned
EndOfStream ==
    /\ pc = "reading"
    /\ ~HasNextChunk
    /\ pc' = "done"
    /\ reader_open' = FALSE
    /\ returned_df' = <<ResultDf>>
    /\ UNCHANGED <<columns, rows, window_size, volatility, read_pos, chunks_read,
                   real_chunk, first_Value_id, last_Value_id, accLists,
                   completeness_values, timeliness_values, total_rows, raised,
                   scorerVars, cmpVars, toolVars>>

----------------------------------------------------------------------------
(* compare_results                                                         *)
(* A cell of these frames is [kind, q, text]: kind "num" (the float q),    *)
(* "numstr" (a str that is the decimal q), "badstr" (the str text, not a   *)
(* number) or "nan".  A line of the comparison file is a tuple of five     *)
(* text fields, position p of the file at index p + 1.                     *)

DfCell(kind, q, text) == [kind |-> kind, q |-> q, text |-> text]

DfNan == DfCell("nan", NaN, "")

\* n thousandths
Milli(n) == Norm(Q(n, 1000))

\* column_mapping: the position in the comparison file of each column
column_mapping ==
    [Accuracy |-> 0, Completeness |-> 1, Value_Start |-> 2, Value_End |-> 3,
     Timeliness |-> 4]

\* the tolerance 0.009, in thousandths
ToleranceMilli == 9

\* pd.to_numeric(..., errors='coerce') on one cell, as a float
ToNumericQ(c) == IF c.kind \in {"num", "numstr"} THEN c.q ELSE NaN

\* pd.read_csv(..., dtype=str) on one field of the comparison file
ReadCmpCell(f) ==
    CASE f.kind = "digits" -> DfCell("numstr", f.q, "")
      [] f.kind = "text"   -> DfCell("badstr", NaN, f.text)
      [] f.kind = "empty"  -> DfNan

\* mutant: the first line is skipped only when it looks like a header
SkipFirstLine_when_header(lines) ==
    IF Len(lines) = 0 THEN <<>>
    ELSE IF lines[1][1].kind = "text" THEN Tail(lines) ELSE lines

\* pd.read_csv(comparison_file, index_col=False, skiprows=1, header=None,
\* dtype=str): the lines after the first one, whatever the first one holds
SkipFirstLine(lines) == IF Len(lines) = 0 THEN <<>> ELSE Tail(lines)

\* pandas.errors.EmptyDataError: "No columns to parse from file"
EmptyDataError == [type |-> "EmptyDataError", arg |-> ""]

\* comparison_df after iloc[:, [...]] and the renaming of its columns: a
\* record per data line, the cell of column col taken at column_mapping[col]
ComparisonDf(lines) ==
    [i \in DOMAIN SkipFirstLine(lines) |->
        [col \in DOMAIN column_mapping |->
            ReadCmpCell(SkipFirstLine(lines)[i][column_mapping[col] + 1])]]

\* mutant: a row missing from one frame counts as a row of zeros
Difference_fill_zero(computed, reference) ==
    LET len == IF Len(computed) > Len(reference) THEN Len(computed) ELSE Len(reference)
        num(frame, i, col) == IF i \in DOMAIN frame THEN ToNumericQ(frame[i][col])
                                                   ELSE Int2Q(0)
    IN  [i \in 1 .. len |->
            [col \in DOMAIN column_mapping |->
                SubQ(num(computed, i, col), num(reference, i, col))]]

\* result_df - comparison_df after both are made numeric: aligned on the row
\* index 0 .. max(m, n) - 1, NaN where either frame has no such row
Difference(computed, reference) ==
    LET len == IF Len(computed) > Len(reference) THEN Len(computed) ELSE Len(reference)
    IN  [i \in 1 .. len |->
            [col \in DOMAIN column_mapping |->
                IF i \in DOMAIN computed /\ i \in DOMAIN reference
                THEN SubQ(ToNumericQ(computed[i][col]), ToNumericQ(reference[i][col]))
                ELSE NaN]]

\* mutant: .all(axis=1) in place of .any(axis=1)
ExceedsTolerance_all(diff_row) ==
    \A col \in DOMAIN diff_row : GtQ(AbsQ(diff_row[col]), Milli(ToleranceMilli))

\* (diff_df.abs() > 0.009).any(axis=1) for one row of differences
ExceedsTolerance(diff_row) ==
    \E col \in DOMAIN diff_row : GtQ(AbsQ(diff_row[col]), Milli(ToleranceMilli))

\* diff_df[(diff_df.abs() > 0.009).any(axis=1)]: the retained rows with their
\* (0-based) index
FilterDifferences(diff) ==
    LET kept == SelectSeq([i \in DOMAIN diff |-> i], LAMBDA i : ExceedsTolerance(diff[i]))
    IN  [j \in DOMAIN kept |-> [index |-> kept[j] - 1, diff |-> diff[kept[j]]]]

\* the computed row of window i (0-based), the scores of section 8's example
ComputedRow(i) ==
    [Value_Start  |-> DfCell("numstr", Int2Q(1 + 100 * i), ""),
     Value_End    |-> DfCell("numstr", Int2Q(100 + 100 * i), ""),
     Accuracy     |-> DfCell("num", Milli(950), ""),
     Completeness |-> DfCell("num", Milli(800), ""),
     Timeliness   |-> DfCell("num", Milli(990), "")]

ComputedFrames ==
    LET base(m) == [i \in 1 .. m |-> ComputedRow(i - 1)]
    IN  {base(m) : m \in 0 .. MaxCompared}
        \cup {[base(m) EXCEPT ![1].Value_End = DfCell("badstr", NaN, "id-x")] :
                m \in 1 .. MaxCompared}

Digits(q) == [kind |-> "digits", q |-> q, text |-> ""]

Text(t) == [kind |-> "text", q |-> NaN, text |-> t]

\* a data line of the comparison file, fields in file order
RefLine(acc, comp, vs, ve, tl) == <<acc, comp, vs, ve, tl>>

\* the data lines the model draws for window i (0-based): the computed row
\* with the given offsets (in thousandths) or non-numeric fields.  No offset
\* is exactly 0.009: there the float subtraction decides by its last bit
\* (0.95 - 0.941 > 0.009 in binary64), which exact arithmetic does not model.
RefChoices(i) ==
    LET vs == Digits(Int2Q(1 + 100 * i))
        ve == Digits(Int2Q(100 + 100 * i))
        num(a, c, t) == RefLine(Digits(Milli(a)), Digits(Milli(c)), vs, ve, Digits(Milli(t)))
    IN  { num(950, 800, 990), num(951, 799, 991), num(942, 800, 990),
          num(940, 800, 990), num(900, 800, 990), num(950, 810, 990),
          num(950, 800, 982), num(950, 800, 1000) }
        \cup { RefLine(Digits(Milli(950)), Digits(Milli(800)),
                       Digits(Int2Q(2 + 100 * i)), ve, Digits(Milli(990))),
               RefLine(Digits(Milli(950)), Digits(Milli(800)),
                       vs, Digits(Int2Q(101 + 100 * i)), Digits(Milli(990))),
               RefLine(Text("n/a"), Digits(Milli(800)), vs, ve, Digits(Milli(990))),
               RefLine(Digits(Milli(950)), Digits(Milli(800)), vs, Text("id-x"),
                       Digits(Milli(990))),
               RefLine(Digits(Milli(950)), [kind |-> "empty", q |-> NaN, text |-> ""],
                       vs, ve, Digits(Milli(990))) }

\* first lines of the comparison file: the header in file order, a header
\* with the names in result_df's order, and a data line (no header at all)
FirstLines ==
    { <<Text("Accuracy"), Text("Completeness"), Text("Value_Start"), Text("Value_End"),
        Text("Timeliness")>>,
      <<Text("Value_Start"), Text("Value_End"), Text("Accuracy"), Text("Completeness"),
        Text("Timeliness")>>,
      RefLine(Digits(Milli(950)), Digits(Milli(800)), Digits(Int2Q(1)), Digits(Int2Q(100)),
              Digits(Milli(990))) }

RECURSIVE DataLines(_)
\* the sequences of n data lines, line i drawn from RefChoices(i - 1)
DataLines(n) ==
    IF n = 0 THEN {<<>>}
    ELSE {Append(t, l) : t \in DataLines(n - 1), l \in RefChoices(n - 1)}

ComparisonFiles ==
    {<<>>} \cup {<<h>> \o t : h \in FirstLines,
                              t \in UNION {DataLines(n) : n \in 0 .. MaxCompared}}

InitCompare ==
    /\ MeasureIdle
    /\ ScorerIdle
    /\ ToolIdle
    /\ result_df \in ComputedFrames
    /\ comparison_file \in ComparisonFiles
    /\ cmp_pc = "call"
    /\ diff_df = <<>>
    /\ printed = "nothing"
    /\ cmp_returned = NoValue
    /\ cmp_raised = NoException

\* read_csv finds no data line after the skipped one
CompareRaises ==
    /\ cmp_pc = "call"
    /\ SkipFirstLine(comparison_file) = <<>>
    /\ cmp_pc' = "raised"
    /\ cmp_raised' = EmptyDataError
    /\ UNCHANGED <<result_df, comparison_file, diff_df, printed, cmp_returned,
                   pipeVars, scorerVars, toolVars>>

\* the whole of compare_results: the caller's result_df is left as it is (the
\* function works on the copy reset_index returns), the filtered differences
\* are printed, and the function ends without a return statement
CompareResults ==
    /\ cmp_pc = "call"
    /\ SkipFirstLine(comparison_file) # <<>>
    /\ LET filtered == FilterDifferences(Difference(result_df, ComparisonDf(comparison_file)))
       IN  /\ diff_df' = filtered
           /\ printed' = IF Len(filtered) = 0 THEN "accurate" ELSE "differences"
    /\ cmp_returned' = None
    /\ cmp_pc' = "returned"
    /\ UNCHANGED <<result_df, comparison_file, cmp_raised, pipeVars, scorerVars, toolVars>>

----------------------------------------------------------------------------
(* A scorer called on its own                                              *)

AccuracyInputs == SeqUpTo({NanCell} \cup {Cell("num", v) : v \in {0, 1, 2, 9}}, MaxLen)

CompletenessInputs ==
    { [i \in DOMAIN t |-> Row(Cell("numstr", 100 + i), t[i], Cell("numstr", 5), Cell("numstr", 5))] :
        t \in SeqUpTo({NanCell, Cell("emptystr", 0), Cell("badstr", 0), Cell("numstr", 1)}, MaxLen) }

TimelinessRows ==
    { Row(Cell("numstr", 0), Cell("numstr", 1), Cell("numstr", 5), Cell("numstr", at)) :
        at \in {4, 5, 6, 7, 9} }
    \cup { Row(Cell("numstr", 0), Cell("numstr", 1), Cell("badstr", 0), Cell("numstr", 5)),
           Row(Cell("numstr", 0), Cell("numstr", 1), Cell("numstr", 5), NanCell) }

MaxTimelinessLen == 3

\* most data lines of a file handed to a preprocessing function
MaxFileRows == 3

\* largest chunk_size of a preprocessing function
MaxChunkSize == 2

\* most data lines of a file handed to add_time_of_availability
MaxAvailRows == 2

TimelinessInputs == SeqUpTo(TimelinessRows, MaxTimelinessLen)

ScorerVolatilities == {2, 3}

InitScorers ==
    /\ MeasureIdle
    /\ CompareIdle
    /\ ToolIdle
    /\ sc_pc = "call"
    /\ sc_result = NoValue
    /\ sc_raised = NoException
    /\ \/ scorer = "accuracy" /\ data_window \in AccuracyInputs /\ sc_volatility = 0
       \/ scorer = "completeness" /\ data_window \in CompletenessInputs /\ sc_volatility = 0
       \/ scorer = "timeliness" /\ data_window \in TimelinessInputs
          /\ sc_volatility \in ScorerVolatilities
       \/ scorer = "process_accuracy" /\ data_window \in AccuracyInputs
          /\ sc_volatility = 0

CallAccuracy ==
    /\ sc_pc = "call"
    /\ scorer = "accuracy"
    /\ sc_result' = calculate_window_accuracy(data_window)
    /\ sc_pc' = "returned"
    /\ UNCHANGED <<scorer, data_window, sc_volatility, sc_raised, pipeVars, cmpVars, toolVars>>

\* _process_accuracy(real_values) called on its own: the scorer's tuple is
\* unpacked into five names, then appended to the result lists
CallProcessAccuracy ==
    /\ sc_pc = "call"
    /\ scorer = "process_accuracy"
    /\ IF Len(calculate_window_accuracy(data_window)) # 5
       THEN /\ sc_pc' = "raised"
            /\ sc_raised' = UnpackError
            /\ sc_result' = NoValue
            /\ UNCHANGED accLists
       ELSE /\ ProcessAccuracy(data_window, first_Value_id, last_Value_id)
            /\ sc_pc' = "returned"
            /\ sc_result' = None
            /\ UNCHANGED sc_raised
    /\ UNCHANGED <<scorer, data_window, sc_volatility, cmpVars, toolVars, columns, rows,
                   window_size, volatility, pc, read_pos, chunks_read, real_chunk,
                   first_Value_id, last_Value_id, completeness_values,
                   timeliness_values, total_rows, reader_open, raised, returned_df>>

CallCompleteness ==
    /\ sc_pc = "call"
    /\ scorer = "completeness"
    /\ sc_result' = calculate_window_completeness(data_window)
    /\ sc_pc' = "returned"
    /\ UNCHANGED <<scorer, data_window, sc_volatility, sc_raised, pipeVars, cmpVars, toolVars>>

CallTimeliness ==
    /\ sc_pc = "call"
    /\ scorer = "timeliness"
    /\ LET out == calculate_window_timeliness(Columns, data_window, sc_volatility)
       IN  /\ data_window' = out.window
           /\ sc_raised' = out.exc
           /\ IF out.exc = NoException
              THEN sc_pc' = "returned" /\ sc_result' = <<out.value>>
              ELSE sc_pc' = "raised" /\ sc_result' = NoValue
    /\ UNCHANGED <<scorer, sc_volatility, pipeVars, cmpVars, toolVars>>

----------------------------------------------------------------------------
(* The script version: Python Scripts/dq_measurement.py, process_csv        *)
(* It keeps its results in lists of the same names as measure_dqs, so the  *)
(* model keeps them in the same variables.                                 *)

\* the module-level WINDOW_SIZE of the script
WINDOW_SIZE == 10000

\* the module-level VOLATILITY of the script
VOLATILITY == 3000

ValueError(arg) == [type |-> "ValueError", arg |-> arg]

\* the script's _calculate_window_accuracy: N_A is the global WINDOW_SIZE,
\* not the length of the window it is given
script_calculate_window_accuracy(values) ==
    IF Len(values) = 0
    THEN <<Int2Q(1), Int2Q(0), Int2Q(0), Int2Q(0)>>
    ELSE LET clean     == RemoveNan(values)
             median    == MedianQ(clean)
             mad       == MedianQ(AbsDeviations(clean, median))
             threshold == Threshold(mad)
             V_T       == NanCount(values) + OutlierCount(clean, median, threshold)
             N_A       == WINDOW_SIZE
         IN  <<AccuracyOf(V_T, N_A), mad, Int2Q(V_T), median, threshold>>

\* Series.astype(int) on a column of str: raises on a missing cell and on
\* text that is not an integer
StrAstypeIntRaises(column) == \E i \in DOMAIN column : column[i].kind # "numstr"

\* the script's _calculate_window_timeliness: no coercion, the window is
\* copied before anything is assigned
script_calculate_window_timeliness(window, vol) ==
    IF Len(window) = 0
    THEN Outcome(NoException, Int2Q(1), window)
    ELSE IF StrAstypeIntRaises(Column(window, "available_time"))
            \/ StrAstypeIntRaises(Column(window, "timestamp"))
    THEN Outcome(ValueError("astype(int)"), NaN, window)
    ELSE Outcome(NoException, MeanTimeliness(window, vol), window)

\* the headers the script is run on: all columns, or column_name missing
ScriptColumnSets == {Columns, Columns \ {"value"}}

InitScript ==
    /\ ScorerIdle
    /\ CompareIdle
    /\ ToolIdle
    /\ columns \in ScriptColumnSets
    /\ rows \in FilesFor(columns)
    /\ window_size \in 1 .. MaxWindow
    /\ volatility = VOLATILITY
    /\ pc = "reading"
    /\ read_pos = 0
    /\ chunks_read = 0
    /\ real_chunk = <<>>
    /\ first_Value_id = Cell("emptystr", 0)
    /\ last_Value_id = Cell("emptystr", 0)
    /\ value_start = <<>>
    /\ value_end = <<>>
    /\ accuracies = <<>>
    /\ mad_values = <<>>
    /\ vt_values = <<>>
    /\ median_values = <<>>
    /\ threshold_values = <<>>
    /\ completeness_values = <<>>
    /\ timeliness_values = <<>>
    /\ total_rows = 0
    /\ reader_open = TRUE
    /\ raised = NoException
    /\ returned_df = NoValue

\* one iteration of the for loop of process_csv(file_path, "value",
\* window_size)
ProcessCsvChunk ==
    /\ pc = "reading"
    /\ HasNextChunk
    /\ LET chunk == NextChunkRows IN
       /\ read_pos' = read_pos + Len(chunk)
       /\ chunks_read' = chunks_read + 1
       /\ real_chunk' = chunk
       /\ UNCHANGED <<columns, rows, window_size, volatility, scorerVars, cmpVars, toolVars>>
       /\ IF "value" \notin columns
          THEN /\ Raise(ValueError("Column 'value' not found"))
               /\ UNCHANGED <<first_Value_id, last_Value_id, accLists,
                              completeness_values, timeliness_values, total_rows>>
          ELSE IF ~IsFullWindow(chunk)
          THEN UNCHANGED <<first_Value_id, last_Value_id, accLists,
                           completeness_values, timeliness_values, total_rows,
                           pc, raised, reader_open, returned_df>>
          ELSE LET temp_data == MapSeq(Column(chunk, "value"), ToNumericCell)
                   t   == script_calculate_window_accuracy(temp_data)
                   out == script_calculate_window_timeliness(chunk, VOLATILITY)
               IN  /\ first_Value_id' = FirstValueId(chunk)
                   /\ last_Value_id' = LastValueId(chunk)
                   /\ value_start' = Append(value_start, FirstValueId(chunk))
                   /\ value_end' = Append(value_end, LastValueId(chunk))
                   /\ accuracies' = Append(accuracies, t[1])
                   /\ mad_values' = Append(mad_values, t[2])
                   /\ vt_values' = Append(vt_values, t[3])
                   /\ median_values' = Append(median_values, t[4])
                   /\ threshold_values' = Append(threshold_values, t[5])
                   /\ ProcessCompleteness(chunk)
                   /\ IF out.exc # NoException
                      THEN /\ Raise(out.exc)
                           /\ UNCHANGED <<timeliness_values, total_rows>>
                      ELSE /\ timeliness_values' = Append(timeliness_values, out.value)
                           /\ total_rows' = total_rows + Len(chunk)
                           /\ UNCHANGED <<pc, raised, reader_open, returned_df>>

\* the reader of process_csv is exhausted: result_df is built and returned
ProcessCsvEnd ==
    /\ pc = "reading"
    /\ ~HasNextChunk
    /\ pc' = "done"
    /\ reader_open' = FALSE
    /\ returned_df' = <<ResultDf>>
    /\ UNCHANGED <<columns, rows, window_size, volatility, read_pos, chunks_read,
                   real_chunk, first_Value_id, last_Value_id, accLists,
                   completeness_values, timeliness_values, total_rows, raised,
                   scorerVars, cmpVars, toolVars>>

----------------------------------------------------------------------------
(* ConfigReader and the prepare command                                    *)

AttributeError(name) == [type |-> "AttributeError", arg |-> name]

\* the attributes __init__ assigns
ConfigKeys == {"NO_OF_DAYS", "DAVIATION", "OUTLIER_FACTOR", "OUTLIER_PERCENTAGE",
               "MISSING_PERCENTAGE", "VOLATILITY", "OUTDATED_PERCENTAGE",
               "WINDOW_SIZE"}

\* Default Configuration Values, as <<numerator, denominator>>
Defaults ==
    [k \in ConfigKeys |->
        CASE k = "NO_OF_DAYS"          -> <<5, 1>>
          [] k = "DAVIATION"           -> <<1, 20>>
          [] k = "OUTLIER_FACTOR"      -> <<2, 1>>
          [] k = "OUTLIER_PERCENTAGE"  -> <<1, 2>>
          [] k = "MISSING_PERCENTAGE"  -> <<1, 5>>
          [] k = "VOLATILITY"          -> <<5000, 1>>
          [] k = "OUTDATED_PERCENTAGE" -> <<4, 5>>
          [] k = "WINDOW_SIZE"         -> <<50000, 1>>]

\* the keys a configuration file may hold: those of the reader, and one the
\* reader never asks for
FileKeys == ConfigKeys \cup {"CHUNK_SIZE"}

\* the value a configuration file gives to key k (never the default)
FileValue(k) == IF k = "CHUNK_SIZE" THEN <<1000, 1>>
                ELSE <<Defaults[k][1] + 1, Defaults[k][2]>>

\* config_file is None or ''
NoPath == [path |-> "none", loads |-> "", data |-> <<>>]

\* config_file names no existing file
MissingPath == [path |-> "missing", loads |-> "", data |-> <<>>]

\* an existing file for which yaml.safe_load returns None: an empty file
EmptyFile == [path |-> "exists", loads |-> "None", data |-> <<>>]

\* the existing files: empty, or such that yaml.safe_load returns a dict
LoadedFiles ==
    {EmptyFile} \cup {[path |-> "exists", loads |-> "dict",
                       data |-> [k \in ks |-> FileValue(k)]] : ks \in SUBSET FileKeys}

\* config_data.get(key, default)
Get(config_data, key, default) ==
    IF key \in DOMAIN config_data THEN config_data[key] ELSE default

\* ConfigReader(config_file) called on its own ("construct") or by prepare
\* ("prepare", where click has checked that a given path exists)
InitPrepare ==
    /\ MeasureIdle
    /\ ScorerIdle
    /\ CompareIdle
    /\ AvailabilityIdle
    /\ SplitIdle
    /\ ConsistencyIdle
    /\ prep_pc \in {"construct", "prepare"}
    /\ config_file \in {NoPath} \cup LoadedFiles
                       \cup (IF prep_pc = "construct" THEN {MissingPath} ELSE {})
    /\ config = NoAttributes
    /\ stages_run = <<>>
    /\ prep_raised = NoException

\* ConfigReader.__init__
ConstructConfig ==
    /\ prep_pc \in {"construct", "prepare"}
    /\ IF config_file \in {NoPath, MissingPath}
       THEN /\ config' = Defaults
            /\ prep_pc' = IF prep_pc = "prepare" THEN "configured" ELSE "constructed"
            /\ prep_raised' = NoException
       ELSE IF config_file.loads = "None"
       THEN \* None has no attribute get: no object is returned
            /\ config' = NoAttributes
            /\ prep_pc' = "raised"
            /\ prep_raised' = AttributeError("get")
       ELSE /\ config' = [k \in ConfigKeys |-> Get(config_file.data, k, Defaults[k])]
            /\ prep_pc' = IF prep_pc = "prepare" THEN "configured" ELSE "constructed"
            /\ prep_raised' = NoException
    /\ UNCHANGED <<config_file, stages_run>>
    /\ UNCHANGED <<pipeVars, scorerVars, cmpVars, availVars, splitVars, consVars>>

\* the attributes prepare reads, in the order it reads them
AttributesRead == <<"CHUNK_SIZE", "DAVIATION", "OUTLIER_FACTOR", "OUTLIER_PERCENTAGE",
                    "CHUNK_SIZE", "MISSING_PERCENTAGE", "CHUNK_SIZE", "VOLATILITY",
                    "OUTDATED_PERCENTAGE", "CHUNK_SIZE">>

\* the stage whose arguments the i-th attribute read belongs to
StageOfRead == <<1, 2, 2, 2, 2, 3, 3, 4, 4, 4>>

Stages == <<"convert_datetime_to_timestamp", "add_inaccuracy", "add_missing_values",
            "add_time_of_availability", "clean_temp_files">>

\* the reads of attributes the object does not have
FailingReads == {i \in DOMAIN AttributesRead : AttributesRead[i] \notin DOMAIN config}

FirstFailingRead == CHOOSE i \in FailingReads : \A j \in FailingReads : i <= j

\* prepare, after the construction of the ConfigReader
RunStages ==
    /\ prep_pc = "configured"
    /\ IF FailingReads = {}
       THEN /\ stages_run' = Stages
            /\ prep_pc' = "done"
            /\ prep_raised' = NoException
       ELSE \* the arguments of a stage are evaluated before it is called
            /\ stages_run' = SubSeq(Stages, 1, StageOfRead[FirstFailingRead] - 1)
            /\ prep_pc' = "raised"
            /\ prep_raised' = AttributeError(AttributesRead[FirstFailingRead])
    /\ UNCHANGED <<config_file, config>>
    /\ UNCHANGED <<pipeVars, scorerVars, cmpVars, availVars, splitVars, consVars>>

----------------------------------------------------------------------------
(* check_consistency (preprocessing_helper.py)                             *)

\* a value of a coerced column: a number, or NaN / NaT where coercion failed
Num(v) == [kind |-> "num", v |-> v]

NotANumber == [kind |-> "nan", v |-> 0]

\* row[column] <= last: false as soon as one side is NaN or NaT
LeScalar(a, b) == a.kind = "num" /\ b.kind = "num" /\ a.v <= b.v

\* the rows of a chunk after lines 137 and 140
CoercedRow(value_id, timestamp) == [value_id |-> value_id, timestamp |-> timestamp]

CoercedValueIds == {Num(v) : v \in 1..MaxFileRows} \cup {NotANumber}

CoercedTimestamps == {Num(v) : v \in 1..(MaxFileRows - 1)} \cup {NotANumber}

SensorFiles ==
    UNION {[1..n -> {CoercedRow(i, t) : i \in CoercedValueIds, t \in CoercedTimestamps}] :
           n \in 0..MaxFileRows}

\* the locals of check_consistency that the row loop updates
Locals(lv, lt, inc, tot) ==
    [last_value_id |-> lv, last_timestamp |-> lt,
     inconsistent_rows |-> inc, total_rows_checked |-> tot]

\* one iteration of the row loop
CheckRow(l, row) ==
    Locals(row.value_id,
           row.timestamp,
           l.inconsistent_rows
             + (IF l.last_value_id # NoneScalar /\ LeScalar(row.value_id, l.last_value_id)
                THEN 1 ELSE 0)
             + (IF l.last_timestamp # NoneScalar /\ LeScalar(row.timestamp, l.last_timestamp)
                THEN 1 ELSE 0),
           l.total_rows_checked + 1)

\* for i, row in chunk.iterrows()
RECURSIVE CheckRows(_, _)
CheckRows(l, chunk) ==
    IF chunk = <<>> THEN l ELSE CheckRows(CheckRow(l, Head(chunk)), Tail(chunk))

InitConsistency ==
    /\ MeasureIdle
    /\ ScorerIdle
    /\ CompareIdle
    /\ PrepareIdle
    /\ AvailabilityIdle
    /\ SplitIdle
    /\ sensor_file \in SensorFiles
    /\ chunk_size \in 1..MaxChunkSize
    /\ cc_pos = 0
    /\ cc_chunks = 0
    /\ last_value_id = NoneScalar
    /\ last_timestamp = NoneScalar
    /\ inconsistent_rows = 0
    /\ total_rows_checked = 0
    /\ cc_pc = "reading"
    /\ cc_printed = "nothing"

\* the reader yields a chunk: the next chunk_size lines, or one empty chunk
\* for a file without data lines
ConsistencyHasChunk == cc_pos < Len(sensor_file) \/ cc_chunks = 0

ConsistencyChunk ==
    SubSeq(sensor_file, cc_pos + 1, Min(cc_pos + chunk_size, Len(sensor_file)))

\* one iteration of  for chunk in reader
CheckChunk ==
    /\ cc_pc = "reading"
    /\ ConsistencyHasChunk
    /\ LET l == CheckRows(Locals(last_value_id, last_timestamp, inconsistent_rows,
                                 total_rows_checked), ConsistencyChunk)
       IN /\ last_value_id' = l.last_value_id
          /\ last_timestamp' = l.last_timestamp
          /\ inconsistent_rows' = l.inconsistent_rows
          /\ total_rows_checked' = l.total_rows_checked
    /\ cc_pos' = cc_pos + Len(ConsistencyChunk)
    /\ cc_chunks' = cc_chunks + 1
    /\ UNCHANGED <<sensor_file, chunk_size, cc_pc, cc_printed>>
    /\ UNCHANGED <<pipeVars, scorerVars, cmpVars, prepVars, availVars, splitVars>>

\* the reader is exhausted: the report
CheckEnd ==
    /\ cc_pc = "reading"
    /\ ~ConsistencyHasChunk
    /\ cc_printed' = IF inconsistent_rows = 0 THEN "consistent" ELSE "inconsistent"
    /\ cc_pc' = "done"
    /\ UNCHANGED <<sensor_file, chunk_size, cc_pos, cc_chunks, last_value_id,
                   last_timestamp, inconsistent_rows, total_rows_checked>>
    /\ UNCHANGED <<pipeVars, scorerVars, cmpVars, prepVars, availVars, splitVars>>

----------------------------------------------------------------------------
(* add_time_of_availability (preprocessing.py)                             *)

\* a file that exists, with its lines
File(lines) == [exists |-> TRUE, lines |-> lines]

\* the header line of the output file
HeaderLine == [header |-> TRUE, timestamp |-> 0, available_time |-> 0]

\* a data line of the output file
OutputRow(timestamp, available_time) ==
    [header |-> FALSE, timestamp |-> timestamp, available_time |-> available_time]

\* the timestamp field of an input line: digits, or empty
TimestampField(v) == [kind |-> "num", v |-> v]

EmptyField == [kind |-> "nan", v |-> 0]

AvailabilityInputs ==
    UNION {[1..n -> {TimestampField(10), TimestampField(20), EmptyField}] :
           n \in 0..MaxAvailRows}

ValidityPeriods == {1, 2}

\* outdated_percentage as <<numerator, denominator>>: 0.0, 0.5, 1.0
OutdatedPercentages == {<<0, 1>>, <<1, 2>>, <<1, 1>>}

\* output_file before the call: absent, or left by an earlier run
EarlierOutputs == {Absent, File(<<HeaderLine, OutputRow(10, 10)>>)}

\* int(len(chunk) * outdated_percentage)
NumOutdated(len, percentage) == (len * percentage[1]) \div percentage[2]

\* chunk.to_csv(output_file, mode="a", index=False, header=first_chunk)
ToCsvAppend(file, header, chunk_rows) ==
    File(file.lines \o (IF header THEN <<HeaderLine>> ELSE <<>>) \o chunk_rows)

InitAvailability ==
    /\ MeasureIdle
    /\ ScorerIdle
    /\ CompareIdle
    /\ PrepareIdle
    /\ SplitIdle
    /\ ConsistencyIdle
    /\ at_input \in AvailabilityInputs
    /\ at_chunk_size \in 1..MaxChunkSize
    /\ validity_period \in ValidityPeriods
    /\ outdated_percentage \in OutdatedPercentages
    /\ output_before \in EarlierOutputs
    /\ output_file = output_before
    /\ at_pos = 0
    /\ at_chunks = 0
    /\ first_chunk = TRUE
    /\ count = 0
    /\ at_pc = "reading"
    /\ at_raised = NoException

\* the reader yields a chunk: the next chunk_size lines, or one empty chunk
\* for a file without data lines
AvailabilityHasChunk == at_pos < Len(at_input) \/ at_chunks = 0

AvailabilityChunk ==
    SubSeq(at_input, at_pos + 1, Min(at_pos + at_chunk_size, Len(at_input)))

\* the chunk with its available_time column: offset from
\* np.random.randint(0, validity_period), and for the rows of outdated_indices
\* extra from np.random.randint(validity_period, validity_period * 2)
WithAvailableTime(chunk, offset, outdated_indices, extra) ==
    [i \in 1..Len(chunk) |->
        OutputRow(chunk[i].v,
                  chunk[i].v + offset[i]
                    + (IF i \in outdated_indices THEN extra[i] ELSE 0))]

\* one iteration of  for chunk in reader
AvailabilityNextChunk ==
    /\ at_pc = "reading"
    /\ AvailabilityHasChunk
    /\ LET chunk == AvailabilityChunk
           len == Len(chunk)
           num_outdated == NumOutdated(len, outdated_percentage)
       IN IF \E i \in 1..len : chunk[i].kind = "nan"
          THEN \* astype(int) on a missing timestamp
               /\ at_raised' = ValueError("astype")
               /\ at_pc' = "raised"
               /\ UNCHANGED <<output_file, first_chunk, count, at_pos, at_chunks>>
          ELSE /\ \E offset \in [1..len -> 0..(validity_period - 1)] :
                  \E outdated_indices \in {s \in SUBSET (1..len) :
                                             Cardinality(s) = num_outdated} :
                  \E extra \in [outdated_indices ->
                                   validity_period..(2 * validity_period - 1)] :
                     output_file' =
                         ToCsvAppend(output_file, first_chunk,
                                     WithAvailableTime(chunk, offset,
                                                       outdated_indices, extra))
               /\ first_chunk' = FALSE
               /\ count' = count + len
               /\ at_pos' = at_pos + len
               /\ at_chunks' = at_chunks + 1
               /\ UNCHANGED <<at_pc, at_raised>>
    /\ UNCHANGED <<at_input, at_chunk_size, validity_period, outdated_percentage,
                   output_before>>
    /\ UNCHANGED <<pipeVars, scorerVars, cmpVars, prepVars, splitVars, consVars>>

\* the reader is exhausted: return output_file
AvailabilityEnd ==
    /\ at_pc = "reading"
    /\ ~AvailabilityHasChunk
    /\ at_pc' = "done"
    /\ UNCHANGED <<at_input, at_chunk_size, validity_period, outdated_percentage,
                   output_before, output_file, at_pos, at_chunks, first_chunk,
                   count, at_raised>>
    /\ UNCHANGED <<pipeVars, scorerVars, cmpVars, prepVars, splitVars, consVars>>

----------------------------------------------------------------------------
(* split_sensors_by_file (preprocessing.py, preprocessing_helper.py)       *)

\* the sensor ids of the input lines
Sensors == {"s1", "s2"}

\* the header line of a sensor file
SensorHeader == [header |-> TRUE, sensor_id |-> "", line |-> 0]

\* the data line of the input file at position line
SensorRow(sensor_id, line) == [header |-> FALSE, sensor_id |-> sensor_id, line |-> line]

\* the input files; the sensor_id field of a line is an id, or empty ("nan")
SplitInputs ==
    UNION {{[i \in 1..n |-> SensorRow(ids[i], i)] :
            ids \in [1..n -> Sensors \cup {"nan"}]} :
           n \in 0..MaxFileRows}

\* sensor_<id>.csv before the call: absent, or left by an earlier run
EarlierSensorFile(s) == File(<<SensorHeader, SensorRow(s, 0)>>)

EarlierSensorFiles ==
    {[s \in Sensors |-> IF s \in present THEN EarlierSensorFile(s) ELSE Absent] :
     present \in SUBSET Sensors}

\* the write mode with sensor_files ignored: decided by the file's existence
WriteMode_by_existence(sensor_id) == IF files[sensor_id].exists THEN "a" ELSE "w"

\* mode = "w" if sensor_id not in sensor_files else "a"
WriteMode(sensor_id) == IF sensor_id \notin sensor_files THEN "w" ELSE "a"

\* sensor_data.to_csv(sensor_filename, mode=mode, index=False, header=header)
SensorToCsv(file, mode, header, sensor_data) ==
    File((IF mode = "w" THEN <<>> ELSE file.lines)
         \o (IF header THEN <<SensorHeader>> ELSE <<>>)
         \o sensor_data)

InitSplit ==
    /\ MeasureIdle
    /\ ScorerIdle
    /\ CompareIdle
    /\ PrepareIdle
    /\ AvailabilityIdle
    /\ ConsistencyIdle
    /\ sp_input \in SplitInputs
    /\ sp_chunk_size \in 1..MaxChunkSize
    /\ sp_pos = 0
    /\ sp_chunks = 0
    /\ sensor_files = {}
    /\ files_before \in EarlierSensorFiles
    /\ files = files_before
    /\ sp_pc = "reading"

\* the reader yields a chunk: the next chunk_size lines, or one empty chunk
\* for a file without data lines
SplitHasChunk == sp_pos < Len(sp_input) \/ sp_chunks = 0

SplitChunk ==
    SubSeq(sp_input, sp_pos + 1, Min(sp_pos + sp_chunk_size, Len(sp_input)))

\* the rows of one group of chunk.groupby("sensor_id"), in chunk order
SensorData(chunk, sensor_id) ==
    SelectSeq(chunk, LAMBDA row : row.sensor_id = sensor_id)

\* the keys of chunk.groupby("sensor_id"): rows with a NaN key are dropped
GroupKeys(chunk) == {chunk[i].sensor_id : i \in 1..Len(chunk)} \ {"nan"}

\* one iteration of  for chunk in reader
SplitNextChunk ==
    /\ sp_pc = "reading"
    /\ SplitHasChunk
    /\ LET chunk == SplitChunk
       IN /\ files' = [s \in Sensors |->
                         IF s \in GroupKeys(chunk)
                         THEN SensorToCsv(files[s], WriteMode(s), WriteMode(s) = "w",
                                          SensorData(chunk, s))
                         ELSE files[s]]
          /\ sensor_files' = sensor_files \cup GroupKeys(chunk)
          /\ sp_pos' = sp_pos + Len(chunk)
          /\ sp_chunks' = sp_chunks + 1
    /\ UNCHANGED <<sp_input, sp_chunk_size, files_before, sp_pc>>
    /\ UNCHANGED <<pipeVars, scorerVars, cmpVars, prepVars, availVars, consVars>>

\* the reader is exhausted
SplitEnd ==
    /\ sp_pc = "reading"
    /\ ~SplitHasChunk
    /\ sp_pc' = "done"
    /\ UNCHANGED <<sp_input, sp_chunk_size, sp_pos, sp_chunks, sensor_files,
                   files_before, files>>
    /\ UNCHANGED <<pipeVars, scorerVars, cmpVars, prepVars, availVars, consVars>>

----------------------------------------------------------------------------
(* Specifications                                                          *)

Init == InitMeasure /\ ScorerIdle /\ CompareIdle /\ ToolIdle

Next == NextChunk \/ EndOfStream

Spec == Init /\ [][Next]_vars

NextScorers == CallAccuracy \/ CallProcessAccuracy \/ CallCompleteness \/ CallTimeliness

SpecScorers == InitScorers /\ [][NextScorers]_vars

NextCompare == CompareResults \/ CompareRaises

SpecCompare == InitCompare /\ [][NextCompare]_vars

NextScript == ProcessCsvChunk \/ ProcessCsvEnd

SpecScript == InitScript /\ [][NextScript]_vars

NextPrepare == ConstructConfig \/ RunStages

SpecPrepare == InitPrepare /\ [][NextPrepare]_vars

NextConsistency == CheckChunk \/ CheckEnd

SpecConsistency == InitConsistency /\ [][NextConsistency]_vars

NextAvailability == AvailabilityNextChunk \/ AvailabilityEnd

SpecAvailability == InitAvailability /\ [][NextAvailability]_vars

NextSplit == SplitNextChunk \/ SplitEnd

SpecSplit == InitSplit /\ [][NextSplit]_vars

----------------------------------------------------------------------------
(* Properties of measure_dqs                                               *)

\* window k (k = 1, 2, ...) of the input file as read_csv yields it
WindowRows(k) ==
    [i \in 1 .. window_size |->
        [c \in Columns |-> ReadCsvCell(rows[(k - 1) * window_size + i][c])]]

\* C1: measure_dqs returns exactly floor(n / w) rows for a file of n data
\* lines; the trailing n mod w lines add no entry to any result list and are
\* not counted as processed.
C1_FloorOfRows ==
    pc = "done" =>
        LET full == Len(rows) \div window_size
        IN  /\ Len(returned_df[1]) = full
            /\ \A l \in {value_start, value_end, accuracies, mad_values, vt_values,
                         median_values, threshold_values, completeness_values,
                         timeliness_values} : Len(l) = full
            /\ total_rows = full * window_size

C1_Witness ==
    /\ pc = "done"
    /\ Len(rows) % window_size # 0
    /\ Len(returned_df[1]) >= 1

\* C2: result row k is computed from input lines (k-1)*w+1 .. k*w (1-based):
\* its Value_Start and Value_End are the value_id of the first and last of
\* them and its scores are the scorers' results on exactly these lines, so
\* windows neither overlap nor skip a line and rows are in stream order.
C2_WindowOfRow ==
    \A k \in DOMAIN value_start :
        /\ k * window_size <= Len(rows)
        /\ value_start[k] = ReadCsvCell(rows[(k - 1) * window_size + 1].value_id)
        /\ value_end[k] = ReadCsvCell(rows[k * window_size].value_id)
        /\ accuracies[k] =
             calculate_window_accuracy(
                 MapSeq(Column(WindowRows(k), "value"), ToNumericCell))[1]
        /\ completeness_values[k] =
             SubQ(Int2Q(1),
                  DivQ(Int2Q(Count(WindowRows(k), LAMBDA r : IsNanCell(r.value))),
                       Int2Q(window_size)))
        /\ k \in DOMAIN timeliness_values =>
             timeliness_values[k] =
                 calculate_window_timeliness(Columns, WindowRows(k), volatility).value

C2_Witness ==
    /\ pc = "done"
    /\ window_size >= 2
    /\ Len(returned_df[1]) >= 2
    /\ returned_df[1][2].Value_Start # returned_df[1][2].Value_End

\* C6 (as claimed): when a required column is absent, measure_dqs ends with
\* an error that names the missing column and returns no result.
C6_MissingColumnFails ==
    (pc \in {"done", "raised"} /\ columns # Columns) =>
        /\ pc = "raised"
        /\ raised.arg \in Columns \ columns
        /\ returned_df = NoValue

\* rows of a window whose timestamp and available_time both coerce to a number
CoercibleRows(window) ==
    SelectSeq(window, LAMBDA r : /\ ~IsNanCell(ToNumericCell(r.timestamp))
                                 /\ ~IsNanCell(ToNumericCell(r.available_time)))

\* C7 (as claimed): with all columns present, a row whose timestamp or
\* available_time cannot be coerced never aborts the run; the window still
\* gets a timeliness, the mean over the rows that coerce.
C7_BadRowExcluded ==
    columns = Columns =>
        /\ pc # "raised"
        /\ \A k \in DOMAIN value_start :
             /\ k \in DOMAIN timeliness_values
             /\ CoercibleRows(WindowRows(k)) # <<>> =>
                  timeliness_values[k] =
                      MeanTimeliness(CoercibleRows(WindowRows(k)), volatility)

\* C8 (as claimed): every timeliness produced lies in [0, 1].
C8_TimelinessInUnitInterval ==
    \A k \in DOMAIN timeliness_values :
        /\ LeQ(Int2Q(0), timeliness_values[k])
        /\ LeQ(timeliness_values[k], Int2Q(1))

\* every line of window k has available_time >= timestamp
NoNegativeCurrency(k) ==
    \A i \in 1 .. window_size :
        LET r == rows[(k - 1) * window_size + i]
        IN  r.available_time.v >= r.timestamp.v

\* C8 (amended): every timeliness produced is >= 0, and it is <= 1 when every
\* row of its window has available_time >= timestamp.
C8_TimelinessBounds ==
    \A k \in DOMAIN timeliness_values :
        /\ LeQ(Int2Q(0), timeliness_values[k])
        /\ NoNegativeCurrency(k) => LeQ(timeliness_values[k], Int2Q(1))

C8_Witness ==
    \E k \in DOMAIN timeliness_values :
        /\ NoNegativeCurrency(k)
        /\ LtQ(Int2Q(0), timeliness_values[k])
        /\ LtQ(timeliness_values[k], Int2Q(1))
        /\ \E i \in 1 .. window_size :
             rows[(k - 1) * window_size + i].available_time.v
                 - rows[(k - 1) * window_size + i].timestamp.v > volatility

\* C9: every accuracy and every completeness produced lies in [0, 1], and
\* V_T never exceeds the window size.
C9_ScoresInUnitInterval ==
    \A k \in DOMAIN accuracies :
        /\ LeQ(Int2Q(0), accuracies[k]) /\ LeQ(accuracies[k], Int2Q(1))
        /\ LeQ(Int2Q(0), completeness_values[k])
        /\ LeQ(completeness_values[k], Int2Q(1))
        /\ LeQ(Int2Q(0), vt_values[k]) /\ LeQ(vt_values[k], Int2Q(window_size))

C9_Witness ==
    \E k \in DOMAIN accuracies :
        /\ k \in DOMAIN timeliness_values
        /\ \E i \in 1 .. window_size : WindowRows(k)[i].value.kind = "badstr"
        /\ \E i \in 1 .. window_size : WindowRows(k)[i].value.kind = "nan"
        /\ LtQ(Int2Q(0), accuracies[k])
        /\ LtQ(completeness_values[k], Int2Q(1))
        /\ LtQ(accuracies[k], completeness_values[k])

----------------------------------------------------------------------------
(* Properties of the Accuracy Scorer                                       *)

AccuracyReturned == sc_pc = "returned" /\ scorer = "accuracy"

AllNan(values) == \A i \in DOMAIN values : IsNanCell(values[i])

\* the k-th smallest of the values V(i), i \in I, by rank
KthSmallest(I, V(_), k) ==
    LET i == CHOOSE j \in I :
                 /\ Cardinality({h \in I : LtQ(V(h), V(j))}) < k
                 /\ Cardinality({h \in I : LeQ(V(h), V(j))}) >= k
    IN  V(i)

\* the median of the values V(i), i \in I (I non-empty), by rank
RankMedian(I, V(_)) ==
    LET n == Cardinality(I)
    IN  DivQ(AddQ(KthSmallest(I, V, (n + 1) \div 2), KthSmallest(I, V, n \div 2 + 1)),
             Int2Q(2))

\* C3: for a non-empty window of N values, accuracy = 1 - V_T / N with
\* V_T = (number of NaN) + (number of non-NaN x with |x - median| >
\* 3 * MAD / 0.6745), median and MAD over the non-NaN entries only, N the
\* full window length.
C3_AccuracyFormula ==
    (AccuracyReturned /\ Len(data_window) > 0) =>
        LET N      == Len(data_window)
            nonNan == {i \in 1 .. N : ~IsNanCell(data_window[i])}
            X(i)   == Int2Q(data_window[i].v)
            median == RankMedian(nonNan, X)
            Dev(i) == AbsQ(SubQ(X(i), median))
            mad    == RankMedian(nonNan, Dev)
            V_T    == (N - Cardinality(nonNan))
                      + Cardinality({i \in nonNan :
                            GtQ(MulQ(Dev(i), Q(6745, 10000)), MulQ(Int2Q(3), mad))})
        IN  /\ sc_result[3] = Int2Q(V_T)
            /\ EqQ(sc_result[1], Q(N - V_T, N))

C3_Witness ==
    /\ AccuracyReturned
    /\ \E i \in DOMAIN data_window : IsNanCell(data_window[i])
    /\ LtQ(Int2Q(NanCount(data_window)), sc_result[3])
    /\ LtQ(sc_result[3], Int2Q(Len(data_window)))
    /\ LtQ(Int2Q(0), sc_result[2])

\* C4: a non-empty window of NaN only has accuracy exactly 0, V_T being the
\* window size.
C4_AllNanAccuracyZero ==
    (AccuracyReturned /\ Len(data_window) > 0 /\ AllNan(data_window)) =>
        /\ sc_result[1] = Int2Q(0)
        /\ sc_result[3] = Int2Q(Len(data_window))

C4_Witness ==
    AccuracyReturned /\ Len(data_window) >= 2 /\ AllNan(data_window)

----------------------------------------------------------------------------
(* Properties of compare_results                                           *)

\* the field of a data line of the comparison file that is compared with
\* column col of result_df
RefField(line, col) ==
    CASE col = "Accuracy"     -> line[1]
      [] col = "Completeness" -> line[2]
      [] col = "Value_Start"  -> line[3]
      [] col = "Value_End"    -> line[4]
      [] col = "Timeliness"   -> line[5]

\* both cells are numbers and |computed - reference| > 0.009, in integers
DiffersBeyondTolerance(c, f) ==
    /\ c.kind \in {"num", "numstr"}
    /\ f.kind = "digits"
    /\ 1000 * Abs(c.q.n * f.q.d - f.q.n * c.q.d) > 9 * c.q.d * f.q.d

\* the (0-based) indices of the rows diff_df retains
RetainedIndices == {diff_df[j].index : j \in DOMAIN diff_df}

\* C10: row i is retained in the difference report if and only if at least
\* one of the five columns has |computed - reference| > 0.009.
C10_RetainedIffBeyondTolerance ==
    cmp_pc = "returned" =>
        \A i \in 1 .. Min(Len(result_df), Len(comparison_file) - 1) :
            (i - 1) \in RetainedIndices <=>
                \E col \in {"Value_Start", "Value_End", "Accuracy", "Completeness",
                            "Timeliness"} :
                    DiffersBeyondTolerance(result_df[i][col],
                                           RefField(comparison_file[i + 1], col))

\* reached: score offsets of 0.001 on row 0 (left out) and a window-boundary
\* id as the only difference on row 1 (kept)
C10_Witness ==
    /\ cmp_pc = "returned"
    /\ Len(result_df) = 2
    /\ Len(comparison_file) = 3
    /\ RefField(comparison_file[2], "Accuracy").q = Milli(951)
    /\ RefField(comparison_file[2], "Completeness").q = Milli(799)
    /\ RefField(comparison_file[3], "Accuracy").q = Milli(950)
    /\ RefField(comparison_file[3], "Value_End").q = Int2Q(201)
    /\ RetainedIndices = {1}
    /\ printed = "differences"

\* the five compared columns
ComparedColumns == {"Value_Start", "Value_End", "Accuracy", "Completeness", "Timeliness"}

\* computed - reference for one cell, NaN unless both are numbers
CellDifference(c, f) ==
    IF c.kind \in {"num", "numstr"} /\ f.kind = "digits" THEN SubQ(c.q, f.q) ELSE NaN

\* C11: the reference fields at positions 0, 1, 2, 3, 4 are compared with
\* Accuracy, Completeness, Value_Start, Value_End, Timeliness; the first line
\* of the file is discarded whatever it holds (row i is compared with line
\* i + 2 of the file), and the outcome is the same for every first line.
C11_PositionsNotNames ==
    cmp_pc = "returned" =>
        /\ \A j \in DOMAIN diff_df :
             LET i == diff_df[j].index + 1
             IN  \A col \in ComparedColumns :
                     diff_df[j].diff[col] =
                         IF i <= Len(result_df) /\ i + 1 <= Len(comparison_file)
                         THEN CellDifference(result_df[i][col],
                                             RefField(comparison_file[i + 1], col))
                         ELSE NaN
        /\ \A h \in FirstLines :
             FilterDifferences(
                 Difference(result_df, ComparisonDf(<<h>> \o Tail(comparison_file))))
               = diff_df

\* reached: the header names written in result_df's order, and a row kept
\* for its Accuracy (position 0) alone
C11_Witness ==
    /\ cmp_pc = "returned"
    /\ comparison_file[1][1] = Text("Value_Start")
    /\ comparison_file[1][3] = Text("Accuracy")
    /\ \E j \in DOMAIN diff_df :
         /\ diff_df[j].diff["Accuracy"] = Milli(50)
         /\ diff_df[j].diff["Value_Start"] = Int2Q(0)
         /\ diff_df[j].diff["Completeness"] = Int2Q(0)


\* the number of data lines of the comparison file
ReferenceRows == IF Len(comparison_file) = 0 THEN 0 ELSE Len(comparison_file) - 1

\* C12 (as claimed): with m computed rows and n reference rows, m # n,
\* compare_results raises no error and reports no row of index >= min(m, n).
C12_UnequalLengthsNoError ==
    (cmp_pc # "call" /\ Len(result_df) # ReferenceRows) =>
        /\ cmp_pc = "returned"
        /\ \A j \in DOMAIN diff_df :
             diff_df[j].index < Min(Len(result_df), ReferenceRows)

\* C12 (amended): with m computed rows and n >= 1 reference rows, m # n,
\* compare_results raises no error and reports no row of index >= min(m, n);
\* with a reference file that has no data line it raises EmptyDataError.
C12_UnequalLengthsWithReferenceRows ==
    (cmp_pc # "call" /\ Len(result_df) # ReferenceRows) =>
        IF ReferenceRows >= 1
        THEN /\ cmp_pc = "returned"
             /\ cmp_raised = NoException
             /\ \A j \in DOMAIN diff_df :
                  diff_df[j].index < Min(Len(result_df), ReferenceRows)
        ELSE cmp_pc = "raised" /\ cmp_raised = EmptyDataError

\* reached: one computed row against two reference lines, row 0 reported
C12_Witness ==
    /\ cmp_pc = "returned"
    /\ Len(result_df) = 1
    /\ ReferenceRows = 2
    /\ RetainedIndices = {0}


----------------------------------------------------------------------------
(* Properties of the scorers on an empty window                            *)

\* C13 (as claimed): on an empty window every scorer returns its fallback
\* score 1 without raising, the Accuracy Scorer's result has its five
\* components, and the five-way unpacking in _process_accuracy succeeds.
C13_EmptyWindowFallback ==
    (sc_pc # "call" /\ Len(data_window) = 0) =>
        /\ sc_pc = "returned"
        /\ sc_raised = NoException
        /\ scorer = "accuracy" => Len(sc_result) = 5 /\ EqQ(sc_result[1], Int2Q(1))
        /\ scorer \in {"completeness", "timeliness"} => EqQ(sc_result[1], Int2Q(1))
        /\ scorer = "process_accuracy" => Len(accuracies) = 1


----------------------------------------------------------------------------
(* Further properties of measure_dqs                                       *)

\* the chunk the for loop holds, as read_csv yielded it
ChunkAsRead ==
    [i \in 1 .. Len(real_chunk) |->
        [c \in Columns |-> ReadCsvCell(rows[read_pos - Len(real_chunk) + i][c])]]

\* C14 (as claimed): once the accuracy, completeness and timeliness steps
\* have run on a full chunk, every cell of the chunk still has the value and
\* the str type it was read with.
C14_WindowUnchanged ==
    (pc \in {"reading", "done"} /\ Len(real_chunk) = window_size) =>
        real_chunk = ChunkAsRead


----------------------------------------------------------------------------
(* Properties of the Timeliness Scorer                                     *)

TimelinessReturned ==
    sc_pc = "returned" /\ scorer = "timeliness" /\ Len(data_window) > 0

\* available_time - timestamp of row i of the scored window
Currency(i) == data_window[i].available_time.v - data_window[i].timestamp.v

RECURSIVE SumClipped(_)
\* the sum over rows 1 .. i of max(volatility - currency, 0)
SumClipped(i) ==
    IF i = 0 THEN 0
    ELSE SumClipped(i - 1)
         + (IF sc_volatility - Currency(i) > 0 THEN sc_volatility - Currency(i) ELSE 0)

\* C16: the window's timeliness is the mean over all its rows of
\* max(1 - currency / volatility, 0), i.e. (sum of max(volatility - currency,
\* 0)) / (volatility * N); a row with currency 0 contributes exactly 1, a row
\* with currency = volatility or above contributes exactly 0.
C16_TimelinessFormula ==
    TimelinessReturned =>
        LET N == Len(data_window)
        IN  /\ sc_result[1].n * (sc_volatility * N) = SumClipped(N) * sc_result[1].d
            /\ ~sc_result[1].nan
            /\ \A i \in 1 .. N :
                 /\ Currency(i) = 0 =>
                      RowTimeliness(data_window[i], sc_volatility) = Int2Q(1)
                 /\ Currency(i) >= sc_volatility =>
                      RowTimeliness(data_window[i], sc_volatility) = Int2Q(0)
            /\ (\A i \in 1 .. N : Currency(i) = 0) => sc_result[1] = Int2Q(1)
            /\ (\A i \in 1 .. N : Currency(i) >= sc_volatility) =>
                 sc_result[1] = Int2Q(0)

\* reached: one window with currency 0, currency = volatility and currency
\* above volatility; its timeliness is 1/3
C16_Witness ==
    /\ TimelinessReturned
    /\ Len(data_window) = 3
    /\ Currency(1) = 0
    /\ Currency(2) = sc_volatility
    /\ Currency(3) > sc_volatility
    /\ EqQ(sc_result[1], Q(1, 3))


----------------------------------------------------------------------------
(* The Accuracy Scorer when the MAD is 0                                   *)

\* the positions of the window that hold a number
NonNanPositions == {i \in DOMAIN data_window : ~IsNanCell(data_window[i])}

\* the value at position i, as a float
ValueAt(i) == Int2Q(data_window[i].v)

\* the median of the non-NaN values, by rank
WindowMedian == RankMedian(NonNanPositions, ValueAt)

DeviationAt(i) == AbsQ(SubQ(ValueAt(i), WindowMedian))

\* the MAD of the non-NaN values, by rank
WindowMad == RankMedian(NonNanPositions, DeviationAt)

\* C18: whenever the MAD of the non-NaN values is 0, the threshold is 0 and
\* V_T = (NaN count) + (number of non-NaN values different from the median);
\* when all non-NaN values are identical, accuracy = 1 - (NaN count) / N.
C18_ZeroMad ==
    (AccuracyReturned /\ NonNanPositions # {} /\ EqQ(WindowMad, Int2Q(0))) =>
        LET N        == Len(data_window)
            nanCount == N - Cardinality(NonNanPositions)
            differ   == {i \in NonNanPositions : ~EqQ(ValueAt(i), WindowMedian)}
        IN  /\ sc_result[2] = Int2Q(0)
            /\ sc_result[5] = Int2Q(0)
            /\ sc_result[3] = Int2Q(nanCount + Cardinality(differ))
            /\ (\A i, j \in NonNanPositions : data_window[i] = data_window[j]) =>
                 /\ sc_result[3] = Int2Q(nanCount)
                 /\ EqQ(sc_result[1], Q(N - nanCount, N))

\* reached: a NaN, two equal values and one different value: MAD 0, V_T 2
C18_Witness ==
    /\ AccuracyReturned
    /\ Len(data_window) = 4
    /\ Cardinality(NonNanPositions) = 3
    /\ EqQ(WindowMad, Int2Q(0))
    /\ \E i \in NonNanPositions : ~EqQ(ValueAt(i), WindowMedian)
    /\ sc_result[3] = Int2Q(2)
    /\ EqQ(sc_result[1], Q(1, 2))


----------------------------------------------------------------------------
(* The reader of measure_dqs                                               *)

\* C19: when measure_dqs has ended, by exhausting the stream, by an exception
\* for a missing column or by an exception raised inside a scorer, the reader
\* it opened is closed.
C19_ReaderClosedAtEnd ==
    /\ pc = "done" => ~reader_open
    /\ (pc = "raised" /\ raised.type = "KeyError") => ~reader_open
    /\ (pc = "raised" /\ raised = IntCastingNaNError) => ~reader_open
    /\ pc \in {"done", "raised"} => ~reader_open

\* reached: the timeliness scorer raised on the second window, after the
\* first window was scored, and the reader is closed
C19_Witness ==
    /\ pc = "raised"
    /\ raised = IntCastingNaNError
    /\ Len(timeliness_values) = 1
    /\ Len(accuracies) = 2
    /\ ~reader_open


----------------------------------------------------------------------------
(* Completeness in measure_dqs                                             *)

\* the number of lines of window k whose value field, as written in the
\* file, is of one of the given kinds
ValueFieldCount(k, kinds) ==
    Cardinality({i \in 1 .. window_size :
                    rows[(k - 1) * window_size + i].value.kind \in kinds})

----------------------------------------------------------------------------
(* A value that is text but not a number                                   *)

\* V_T of the numeric values of window k alone: the values beyond the
\* threshold
NumericOutliers(k) ==
    calculate_window_accuracy(
        MapSeq(SelectSeq(Column(WindowRows(k), "value"), LAMBDA c : c.kind = "numstr"),
               ToNumericCell))[3]

RECURSIVE SumClippedLines(_, _)
\* the sum over lines 1 .. i of window k of max(volatility - currency, 0),
\* from the timestamp and available_time fields alone
SumClippedLines(k, i) ==
    IF i = 0 THEN 0
    ELSE LET r   == rows[(k - 1) * window_size + i]
             cur == r.available_time.v - r.timestamp.v
         IN  SumClippedLines(k, i - 1)
             + (IF volatility - cur > 0 THEN volatility - cur ELSE 0)

\* the value fields of window k play no part in its timeliness
TimelinessFromTimesOnly(k) ==
    k \in DOMAIN timeliness_values =>
        timeliness_values[k].n * (volatility * window_size) =
            SumClippedLines(k, window_size) * timeliness_values[k].d

\* C20 (as claimed): a value field holding non-empty text that is not a
\* number is counted in V_T, is not counted as missing by completeness, and
\* leaves the timeliness of its window as it is.
C20_TextValueAccuracyOnly ==
    \A k \in DOMAIN accuracies :
        /\ vt_values[k] =
             AddQ(Int2Q(ValueFieldCount(k, {"empty", "na", "text"})), NumericOutliers(k))
        /\ completeness_values[k].n * window_size =
             (window_size - ValueFieldCount(k, {"empty"})) * completeness_values[k].d
        /\ TimelinessFromTimesOnly(k)

\* C20 (amended): a value field holding non-empty text that is not a number
\* and not an NA marker is counted in V_T, is not counted as missing by
\* completeness, and leaves the timeliness of its window as it is; an NA
\* marker is counted in V_T and counted as missing.
C20_TextValueNotMissing ==
    \A k \in DOMAIN accuracies :
        /\ vt_values[k] =
             AddQ(Int2Q(ValueFieldCount(k, {"empty", "na", "text"})), NumericOutliers(k))
        /\ completeness_values[k].n * window_size =
             (window_size - ValueFieldCount(k, {"empty", "na"}))
                 * completeness_values[k].d
        /\ TimelinessFromTimesOnly(k)

\* reached: a window of two lines, one value a number and one other text:
\* V_T 1, completeness 1, timeliness scored
C20_Witness ==
    \E k \in DOMAIN timeliness_values :
        /\ window_size = 2
        /\ ValueFieldCount(k, {"text"}) = 1
        /\ ValueFieldCount(k, {"digits"}) = 1
        /\ vt_values[k] = Int2Q(1)
        /\ accuracies[k] = Q(1, 2)
        /\ completeness_values[k] = Int2Q(1)
        /\ LtQ(timeliness_values[k], Int2Q(1))


----------------------------------------------------------------------------
(* What compare_results hands back                                         *)

\* C21 (as claimed): compare_results returns to its caller the DataFrame of
\* differences between the computed results and the comparison file.
C21_ReturnsDifferences ==
    cmp_pc = "returned" =>
        /\ cmp_returned # None
        /\ cmp_returned = <<diff_df>>


----------------------------------------------------------------------------
(* What the report "accurate" guarantees                                   *)

\* the cell of the result and the field of the reference are both numbers
BothNumeric(c, f) == c.kind \in {"num", "numstr"} /\ f.kind = "digits"

\* C23 (as claimed): when compare_results reports the measurements as
\* accurate, the two sequences have the same length and at every row and
\* column both cells are numeric with |computed - reference| <= 0.009.
C23_AccurateMeansEqual ==
    (cmp_pc = "returned" /\ printed = "accurate") =>
        /\ Len(result_df) = ReferenceRows
        /\ \A i \in 1 .. Len(result_df) : \A col \in ComparedColumns :
             /\ BothNumeric(result_df[i][col], RefField(comparison_file[i + 1], col))
             /\ ~DiffersBeyondTolerance(result_df[i][col],
                                        RefField(comparison_file[i + 1], col))

----------------------------------------------------------------------------
(* Accuracy against completeness                                           *)

\* C25: for every full window scored by measure_dqs, Accuracy <=
\* Completeness, and the lines the Completeness Scorer counts as missing
\* (1 - completeness, times N) are no more than V_T.
C25_AccuracyAtMostCompleteness ==
    \A k \in DOMAIN completeness_values :
        /\ LeQ(accuracies[k], completeness_values[k])
        /\ LeQ(MulQ(SubQ(Int2Q(1), completeness_values[k]), Int2Q(window_size)),
               vt_values[k])
        /\ \A i \in 1 .. window_size :
             FillNaCell(WindowRows(k)[i].value).kind = "emptystr" =>
                 IsNanCell(ToNumericCell(WindowRows(k)[i].value))

\* reached: a window with an empty value and a value that is other text:
\* completeness 2/3, accuracy 1/3
C25_Witness ==
    \E k \in DOMAIN timeliness_values :
        /\ window_size = 3
        /\ ValueFieldCount(k, {"empty"}) = 1
        /\ ValueFieldCount(k, {"text"}) = 1
        /\ ValueFieldCount(k, {"digits"}) = 1
        /\ completeness_values[k] = Q(2, 3)
        /\ accuracies[k] = Q(1, 3)
        /\ vt_values[k] = Int2Q(2)

----------------------------------------------------------------------------
(* The script version's accuracy                                           *)

\* C22 (as claimed): process_csv called with any window_size scores each
\* window with accuracy = 1 - V_T / window_size, within [0, 1].
C22_ScriptAccuracyDivisor ==
    \A k \in DOMAIN accuracies :
        /\ accuracies[k].n * window_size =
             (window_size - vt_values[k].n) * accuracies[k].d
        /\ LeQ(Int2Q(0), accuracies[k])
        /\ LeQ(accuracies[k], Int2Q(1))


----------------------------------------------------------------------------
(* Properties of ConfigReader and prepare                                  *)

\* C24: once the ConfigReader is constructed, prepare raises nothing and
\* calls its five stages in order, down to clean_temp_files
C24_PrepareReachesLastStage ==
    prep_pc \in {"done", "raised"} /\ DOMAIN config # {} =>
        /\ prep_raised = NoException
        /\ stages_run = Stages

\* C29: the constructor returns an object for every argument; without a
\* loaded file all eight attributes hold their defaults, with one every key
\* of the file overrides its own attribute and the others hold their
\* defaults
C29_DefaultsAndOverrides ==
    prep_pc # "construct" /\ prep_pc # "prepare" =>
        /\ DOMAIN config = ConfigKeys
        /\ \A k \in ConfigKeys :
              config[k] = IF k \in DOMAIN config_file.data
                          THEN config_file.data[k]
                          ELSE Defaults[k]

----------------------------------------------------------------------------
(* Properties of check_consistency                                         *)

\* column col of the file goes strictly up from every row to the next; a
\* value that failed coercion is not above or below anything
StrictlyIncreasing(col) ==
    \A i \in 1..(Len(sensor_file) - 1) :
        /\ sensor_file[i][col].kind = "num"
        /\ sensor_file[i + 1][col].kind = "num"
        /\ sensor_file[i][col].v < sensor_file[i + 1][col].v

\* C26: the file is reported fully consistent exactly if value_id and
\* timestamp each go strictly up from every row to the next over the whole
\* file, across chunk boundaries and across rows that failed coercion
C26_ConsistentIffStrictlyIncreasing ==
    cc_pc = "done" =>
        (cc_printed = "consistent"
            <=> StrictlyIncreasing("value_id") /\ StrictlyIncreasing("timestamp"))

----------------------------------------------------------------------------
(* Properties of add_time_of_availability                                  *)

\* the data lines this call has appended to output_file
WrittenRows ==
    LET new == SubSeq(output_file.lines, Len(output_before.lines) + 1,
                      Len(output_file.lines))
    IN SelectSeq(new, LAMBDA line : ~line.header)

\* the positions in WrittenRows of the rows of the k-th chunk
ChunkPositions(k) ==
    {i \in 1..Len(WrittenRows) :
        (k - 1) * at_chunk_size < i /\ i <= k * at_chunk_size}

Delay(i) == WrittenRows[i].available_time - WrittenRows[i].timestamp

\* C27: every written row has available_time >= timestamp; of the rows of a
\* chunk of length L exactly int(L * outdated_percentage) have
\* available_time > timestamp + validity_period and the others have
\* 0 <= available_time - timestamp < validity_period; the rows are the input
\* rows, in input order
C27_AvailableTimeRanges ==
    /\ \A i \in 1..Len(WrittenRows) : Delay(i) >= 0
    /\ \A k \in 1..at_chunks :
          LET outdated == {i \in ChunkPositions(k) : Delay(i) > validity_period}
          IN /\ Cardinality(outdated)
                  = NumOutdated(Cardinality(ChunkPositions(k)), outdated_percentage)
             /\ \A i \in ChunkPositions(k) \ outdated :
                   0 <= Delay(i) /\ Delay(i) < validity_period
    /\ Len(WrittenRows) = at_pos
    /\ \A i \in 1..Len(WrittenRows) : WrittenRows[i].timestamp = at_input[i].v
    /\ at_pc = "done" => Len(WrittenRows) = Len(at_input)

\* C28: the finished output file is one header line followed by one row per
\* input row, whether or not a file of that name existed before the call
C28_OneHeaderOneRowPerInputRow ==
    at_pc = "done" =>
        /\ Len(output_file.lines) = 1 + Len(at_input)
        /\ output_file.lines[1].header
        /\ \A i \in 2..Len(output_file.lines) : ~output_file.lines[i].header

----------------------------------------------------------------------------
(* Properties of split_sensors_by_file                                     *)

\* the input lines of sensor s, in input order
InputRowsOf(s) == SelectSeq(sp_input, LAMBDA row : row.sensor_id = s)

\* the chunks in which sensor s has a line
ChunksOf(s) ==
    {(i - 1) \div sp_chunk_size : i \in {j \in 1..Len(sp_input) : sp_input[j].sensor_id = s}}

\* C30: after the split, the file of every sensor of the input is one header
\* line followed by the input lines of that sensor in input order, whatever
\* the chunks were and whether or not the file existed before
C30_SensorFileIsHeaderThenRows ==
    sp_pc = "done" =>
        \A s \in Sensors :
            InputRowsOf(s) # <<>> => files[s] = File(<<SensorHeader>> \o InputRowsOf(s))

\* a finished split where the lines of a sensor whose file existed before
\* come in two chunks, with a line of the other sensor in between
C30_Witness ==
    /\ sp_pc = "done"
    /\ files_before["s1"].exists
    /\ Cardinality(ChunksOf("s1")) = 2
    /\ Len(InputRowsOf("s1")) = 2
    /\ Len(InputRowsOf("s2")) = 1
    /\ sp_input[2].sensor_id = "s2"

====
